---- MODULE Spec2Model ----
(***************************************************************************)
(* Model of the bm25s / haystack adapter pair:                             *)
(*   BM25S_DocumentStore  (document_stores/bm25s/document_store.py)        *)
(*   BM25S_Retriever      (retrievers/bm25s/retriever.py)                  *)
(* The state is the set of live Python objects (stores, the retriever),    *)
(* the read-only index directories on disk, and the outcome of the last    *)
(* call.  Every method is an operator that returns what the call raised,   *)
(* what it returned and the receiver after the call; one action per method *)
(* applies it.  The wrapped libraries (bm25s, PyStemmer, haystack's        *)
(* default_to_dict / default_from_dict) are modelled at their call sites.  *)
(***************************************************************************)
EXTENDS Integers, Sequences, FiniteSets, TLC

VARIABLES
    stores,             \* name -> BM25S_DocumentStore object (its fields)
    retrievers,         \* name -> BM25S_Retriever object (its fields)
    built,              \* name -> what the store was constructed with (history)
    JAX_IS_AVAILABLE,   \* bm25s picks its top-k backend from this at import
    last                \* the last call: op, self, args, raised, value, lib

vars == <<stores, retrievers, built, JAX_IS_AVAILABLE, last>>

----------------------------------------------------------------------------
(* Bounds of the model *)

\* documents in the larger of the two indexes on disk
MaxDocs == 3
\* largest explicit top_k handed to the retriever's constructor
MaxTopK == 3

(* Program constants *)

\* default of top_k in BM25S_Retriever.__init__
DefaultTopK == 10

----------------------------------------------------------------------------
(* Values *)

None == "None"
NoError == "no error"
ImmutableMessage == "bm25s is immutable"
StoreClassName ==
    "haystack_integrations.document_stores.bm25s.document_store.BM25S_DocumentStore"

Dirs == {"idx_small", "idx_large"}
Langs == {"english", "french"}

\* what the constructor's callers may pass: every combination, defaults included
CtorArgs == [corpus_dirpath : Dirs, load_corpus : BOOLEAN, mmap : BOOLEAN,
             stemmer_lang : Langs]

TopKs == (-2 .. MaxTopK) \cup {DefaultTopK}
Queries == {"", "running cats"}
Policies == {"NONE", "SKIP", "OVERWRITE", "FAIL"}

\* the number of documents of the index saved under a directory
NumDocsOnDisk(dir) == IF dir = "idx_small" THEN 2 ELSE MaxDocs

\* the corpus saved with an index: entry i (0-based) is {"id": i, "text": ...}
CorpusOnDisk(dir) ==
    [i \in 1 .. NumDocsOnDisk(dir) |-> [id |-> i - 1, text |-> <<"text", dir, i - 1>>]]

\* document lists handed to write_documents, id lists handed to delete_documents
DocumentLists == {<<>>, <<[id |-> 0, content |-> "new"]>>,
                  <<[id |-> 0, content |-> "new"], [id |-> 99, content |-> "other"]>>}
IdLists == {<<>>, <<0>>, <<99>>, <<0, 99>>}
Filters == {None, "comparison", "logic"}

\* how a caller hands filter_documents its argument: left out, by position, or
\* by the name `filters` that the DocumentStore protocol and the docstring use
FilterCalls ==
    {[passed_as |-> "omitted", value |-> None]} \cup
    [passed_as : {"positional", "filters"}, value : Filters]

\* injective sequences of length len over 1..n
RECURSIVE Injections(_, _)
Injections(len, n) ==
    IF len = 0 THEN {<<>>}
    ELSE {Append(p, i) : p \in Injections(len - 1, n), i \in 1 .. n} \cap
         {q \in [1 .. len -> 1 .. n] : \A a, b \in 1 .. len : a # b => q[a] # q[b]}

Result(raised, value, self) == [raised |-> raised, value |-> value, self |-> self]

----------------------------------------------------------------------------
(* The wrapped libraries, at their call sites *)

\* bm25s.BM25.load(corpus_dirpath, load_corpus=, mmap=): the index object
bm25s_BM25_load(corpus_dirpath, load_corpus, mmap) ==
    [scores |-> [num_docs |-> NumDocsOnDisk(corpus_dirpath)],
     has_corpus |-> load_corpus,
     corpus |-> IF load_corpus THEN CorpusOnDisk(corpus_dirpath) ELSE <<>>]

\* Stemmer.Stemmer(stemmer_lang)
Stemmer_Stemmer(stemmer_lang) == [lang |-> stemmer_lang]

\* bm25s.tokenize(query, stemmer=): an opaque Tokenized value
bm25s_tokenize(query, stemmer) == [text |-> query, stemmer |-> stemmer.lang]

\* index.retrieve(query_tokens, k=, return_as='documents'): the outcomes the
\* library can produce.  Scoring belongs to the library: any ranking is allowed.
\* Only the shape is fixed: one row per query; k > num_docs raises; the row
\* holds k entries for 1 <= k <= num_docs.  With k <= 0 the numpy backend takes
\* argpartition(scores, -k).take(indices=range(-k, 0)): an empty range, so an
\* empty row, unless -k is out of argpartition's bounds (-k >= num_docs), which
\* raises; the jax backend calls jax.lax.top_k(scores, k), which returns an
\* empty row for k = 0 and raises for k < 0.
bm25s_retrieve(index, query_tokens, k, jax) ==
    LET n == index.scores.num_docs
        entry(i) == IF index.has_corpus THEN index.corpus[i] ELSE i - 1
        rows(len) == {[j \in 1 .. len |-> entry(p[j])] : p \in Injections(len, n)}
        ok(len) == {[raised |-> NoError, value |-> <<row>>] : row \in rows(len)}
        err == {[raised |-> "ValueError", value |-> None]}
    IN  IF k > n THEN err
        ELSE IF k >= 1 THEN ok(k)
        ELSE IF k = 0 THEN ok(0)
        ELSE IF jax THEN err
        ELSE IF -k >= n THEN err
        ELSE ok(0)

\* haystack.default_to_dict(obj, **init_parameters)
default_to_dict(type, init_parameters) ==
    [type |-> type, init_parameters |-> init_parameters]

\* a Document's id: the value the caller gave, or the hash that
\* Document._create_id() computes from the document's fields
GivenId(value) == [value |-> value]
CreatedId(content) == [sha256 |-> content]

\* haystack.Document(content=...): no id is given, so __post_init__ creates one
Document_content(content) == [id |-> CreatedId(content), content |-> content]

\* haystack.Document(id=...): no content is set; __post_init__ does
\* self.id = self.id or self._create_id(), so a falsy id (the entry 0) is
\* replaced by a created one
Document_id(id) ==
    [id |-> IF id = 0 THEN CreatedId(None) ELSE GivenId(id), content |-> None]

----------------------------------------------------------------------------
(* BM25S_DocumentStore *)

BM25S_DocumentStore_init(corpus_dirpath, load_corpus, mmap, stemmer_lang) ==
    [corpus_dirpath |-> corpus_dirpath,
     load_corpus |-> load_corpus,
     mmap |-> mmap,
     stemmer_lang |-> stemmer_lang,
     bm25s |-> bm25s_BM25_load(corpus_dirpath, load_corpus, mmap),
     stemmer |-> Stemmer_Stemmer(stemmer_lang)]

\* the number of documents a store answers with
count_documents(self) == Result(NoError, self.bm25s.scores.num_docs, self)

\* def filter_documents(self, _ = None): the parameter is named `_`, so an
\* argument passed as filters=... is an unexpected keyword argument and the
\* call raises TypeError before the body runs; the body raises
\* NotImplementedError
filter_documents(self, call) ==
    IF call.passed_as = "filters"
    THEN Result("TypeError", None, self)
    ELSE Result("NotImplementedError", None, self)

\* variant: an empty list is accepted as a write of nothing
write_documents_empty_ok(self, documents, policy) ==
    IF documents = <<>> THEN Result(NoError, 0, self)
    ELSE Result("Exception", ImmutableMessage, self)

\* the store with `documents` appended to its index
Appended(self, documents) ==
    [self EXCEPT !.bm25s.scores.num_docs = @ + Len(documents),
                 !.bm25s.corpus = IF self.bm25s.has_corpus
                                  THEN @ \o [i \in 1 .. Len(documents) |->
                                               [id |-> documents[i].id,
                                                text |-> documents[i].content]]
                                  ELSE @]

\* variant: the documents are written to the index
write_documents_appends(self, documents, policy) ==
    Result(NoError, Len(documents), Appended(self, documents))

write_documents(self, documents, policy) == Result("Exception", ImmutableMessage, self)

\* the ids of the documents of a store's index
PresentIds(self) == 0 .. self.bm25s.scores.num_docs - 1

\* variant: the error follows the docstring when an id is absent
delete_documents_missing(self, document_ids) ==
    IF \E i \in 1 .. Len(document_ids) : document_ids[i] \notin PresentIds(self)
    THEN Result("MissingDocumentError", None, self)
    ELSE Result("Exception", ImmutableMessage, self)

delete_documents(self, document_ids) == Result("Exception", ImmutableMessage, self)

\* variant: load_corpus and mmap change places in the dictionary
to_dict_swapped(self) ==
    Result(NoError,
           default_to_dict(StoreClassName,
                           [corpus_dirpath |-> self.corpus_dirpath,
                            load_corpus |-> self.mmap,
                            mmap |-> self.load_corpus,
                            stemmer_lang |-> self.stemmer_lang]),
           self)

to_dict(self) ==
    Result(NoError,
           default_to_dict(StoreClassName,
                           [corpus_dirpath |-> self.corpus_dirpath,
                            load_corpus |-> self.load_corpus,
                            mmap |-> self.mmap,
                            stemmer_lang |-> self.stemmer_lang]),
           self)

\* default_from_dict(cls, data): checks data["type"], then cls(**init_parameters)
from_dict(data) ==
    IF data.type # StoreClassName
    THEN Result("DeserializationError", None, None)
    ELSE LET p == data.init_parameters
         IN  Result(NoError, None,
                    BM25S_DocumentStore_init(p.corpus_dirpath, p.load_corpus,
                                             p.mmap, p.stemmer_lang))

----------------------------------------------------------------------------
(* BM25S_Retriever *)

BM25S_Retriever_init(document_store, top_k) ==
    Result(NoError, None, [document_store |-> document_store, top_k |-> top_k])

\* the documents run builds from the library's result (row 0 of it)
run_documents(load_corpus, bm25s_retrieved_docs) ==
    LET row == bm25s_retrieved_docs[1]
    IN  IF load_corpus
        THEN [i \in 1 .. Len(row) |-> Document_content(row[i].text)]
        ELSE [i \in 1 .. Len(row) |-> Document_id(row[i])]

\* run's outcome for one outcome `lib` of the library's retrieve: an error of
\* the library leaves run; the retriever and its store are carried as left
RunResult(self, store, lib) ==
    [raised |-> lib.raised,
     value |-> IF lib.raised = NoError
               THEN run_documents(store.load_corpus, lib.value) ELSE None,
     lib |-> lib, self |-> self, store |-> store]

\* variant: run keeps the number of documents it found as the next top_k
run_keeps_count(self, store, query, jax) ==
    {[r EXCEPT !.self.top_k = IF r.raised = NoError THEN Len(r.value) ELSE @] :
        r \in {RunResult(self, store, lib) :
                  lib \in bm25s_retrieve(store.bm25s,
                                         bm25s_tokenize(query, store.stemmer),
                                         self.top_k, jax)}}

\* run(self, query): the outcomes of the call, one per outcome of the library
run(self, store, query, jax) ==
    LET query_tokens == bm25s_tokenize(query, store.stemmer)
    IN  {RunResult(self, store, lib) :
            lib \in bm25s_retrieve(store.bm25s, query_tokens, self.top_k, jax)}

----------------------------------------------------------------------------
(* Actions: one per constructor or method call *)

Call(op, self, args, raised, value, lib) ==
    [op |-> op, self |-> self, args |-> args, raised |-> raised, value |-> value,
     lib |-> lib]

Init ==
    /\ \E a \in CtorArgs :
          /\ stores = [x \in {"s"} |->
                BM25S_DocumentStore_init(a.corpus_dirpath, a.load_corpus, a.mmap,
                                         a.stemmer_lang)]
          /\ built = [x \in {"s"} |->
                [args |-> a, num_docs |-> NumDocsOnDisk(a.corpus_dirpath)]]
    /\ retrievers = [x \in {} |-> None]
    /\ JAX_IS_AVAILABLE \in BOOLEAN
    /\ last = Call("__init__", "s", None, NoError, None, None)

StoreCall(op, name, args, res) ==
    /\ stores' = [stores EXCEPT ![name] = res.self]
    /\ last' = Call(op, name, args, res.raised, res.value, None)
    /\ UNCHANGED <<retrievers, built, JAX_IS_AVAILABLE>>

CountDocuments ==
    \E name \in DOMAIN stores :
        StoreCall("count_documents", name, None, count_documents(stores[name]))

FilterDocuments ==
    \E name \in DOMAIN stores, call \in FilterCalls :
        StoreCall("filter_documents", name, call,
                  filter_documents(stores[name], call))

WriteDocuments ==
    \E name \in DOMAIN stores, documents \in DocumentLists, policy \in Policies :
        StoreCall("write_documents", name,
                  [documents |-> documents, policy |-> policy],
                  write_documents(stores[name], documents, policy))

DeleteDocuments ==
    \E name \in DOMAIN stores, document_ids \in IdLists :
        StoreCall("delete_documents", name, document_ids,
                  delete_documents(stores[name], document_ids))

ToDict ==
    \E name \in DOMAIN stores :
        StoreCall("to_dict", name, None, to_dict(stores[name]))

\* r = BM25S_DocumentStore.from_dict(data), data being the dictionary to_dict
\* just returned, or that dictionary with another class's name in "type"
FromDict ==
    /\ last.op = "to_dict"
    /\ "r" \notin DOMAIN stores
    /\ \E data \in {last.value, [last.value EXCEPT !.type = "other.Class"]} :
          LET res == from_dict(data)
          IN  /\ last' = Call("from_dict", "r", data, res.raised, None, None)
              /\ IF res.raised = NoError
                 THEN /\ stores' = [x \in DOMAIN stores \cup {"r"} |->
                                      IF x = "r" THEN res.self ELSE stores[x]]
                      /\ built' = [x \in DOMAIN built \cup {"r"} |->
                                      IF x = "r"
                                      THEN [args |-> data.init_parameters,
                                            num_docs |-> res.self.bm25s.scores.num_docs]
                                      ELSE built[x]]
                 ELSE UNCHANGED <<stores, built>>
    /\ UNCHANGED <<retrievers, JAX_IS_AVAILABLE>>

\* ret = BM25S_Retriever(document_store, top_k)
NewRetriever ==
    /\ "ret" \notin DOMAIN retrievers
    /\ \E name \in DOMAIN stores, top_k \in TopKs :
          LET res == BM25S_Retriever_init(name, top_k)
          IN  /\ last' = Call("Retriever.__init__", "ret",
                              [document_store |-> name, top_k |-> top_k],
                              res.raised, None, None)
              /\ IF res.raised = NoError
                 THEN retrievers' = [x \in {"ret"} |-> res.self]
                 ELSE UNCHANGED retrievers
    /\ UNCHANGED <<stores, built, JAX_IS_AVAILABLE>>

Run ==
    \E name \in DOMAIN retrievers, query \in Queries :
        LET self == retrievers[name]
            store == stores[self.document_store]
        IN  \E res \in run(self, store, query, JAX_IS_AVAILABLE) :
                /\ last' = Call("run", name, query, res.raised, res.value, res.lib)
                /\ retrievers' = [retrievers EXCEPT ![name] = res.self]
                /\ stores' = [stores EXCEPT ![res.self.document_store] = res.store]
                /\ UNCHANGED <<built, JAX_IS_AVAILABLE>>

Next ==
    \/ CountDocuments
    \/ FilterDocuments
    \/ WriteDocuments
    \/ DeleteDocuments
    \/ ToDict
    \/ FromDict
    \/ NewRetriever
    \/ Run

Spec == Init /\ [][Next]_vars

----------------------------------------------------------------------------
(* Properties *)

\* what a step leaves alone when it leaves every object alone
ObjectsUnchanged ==
    /\ stores' = stores
    /\ retrievers' = retrievers
    /\ built' = built

\* C1: write_documents raises the generic 'bm25s is immutable' error for every
\* list of documents and every duplicate policy, in every reachable state: it
\* never returns a count, and the step leaves every store as it was.
C1_WriteAlwaysRaises ==
    /\ [](/\ last.op = "write_documents" =>
                /\ last.raised = "Exception"
                /\ last.value = ImmutableMessage
          /\ \A name \in DOMAIN stores, documents \in DocumentLists,
                policy \in Policies :
                LET res == write_documents(stores[name], documents, policy)
                IN  /\ res.raised = "Exception"
                    /\ res.value = ImmutableMessage
                    /\ res.self = stores[name])
    /\ [][last'.op = "write_documents" => ObjectsUnchanged]_vars

\* C1 witness: a write of a non-empty list under policy OVERWRITE has failed on
\* a store that a retriever reads
C1_Witness ==
    /\ last.op = "write_documents"
    /\ last.args.policy = "OVERWRITE"
    /\ Len(last.args.documents) = 2
    /\ last.raised = "Exception"
    /\ "ret" \in DOMAIN retrievers

\* C2: delete_documents raises the generic 'bm25s is immutable' error for every
\* list of ids (empty, present, absent), in every reachable state, and the step
\* leaves every store as it was.
C2_DeleteAlwaysRaises ==
    /\ [](/\ last.op = "delete_documents" =>
                /\ last.raised = "Exception"
                /\ last.value = ImmutableMessage
          /\ \A name \in DOMAIN stores, document_ids \in IdLists :
                LET res == delete_documents(stores[name], document_ids)
                IN  /\ res.raised = "Exception"
                    /\ res.value = ImmutableMessage
                    /\ res.self = stores[name])
    /\ [][last'.op = "delete_documents" => ObjectsUnchanged]_vars

\* C2 witness: a delete naming a present and an absent id has failed with the
\* generic error
C2_Witness ==
    /\ last.op = "delete_documents"
    /\ last.args = <<0, 99>>
    /\ last.raised = "Exception"
    /\ last.value = ImmutableMessage

\* C3 (as claimed): filter_documents ends in NotImplementedError for every
\* filter argument, None included, returns no list, and the step leaves every
\* store as it was.
C3_FilterNotImplemented ==
    /\ [](last.op = "filter_documents" =>
                /\ last.raised = "NotImplementedError"
                /\ last.value = None)
    /\ [][last'.op = "filter_documents" => ObjectsUnchanged]_vars

\* C4: the document count is fixed by the index loaded at construction: in every
\* reachable state count_documents answers, for every store, the num_docs of the
\* index its constructor loaded, and no step of any operation changes the answer.
C4_CountFixed ==
    /\ [](/\ \A name \in DOMAIN stores :
                LET res == count_documents(stores[name])
                IN  /\ res.raised = NoError
                    /\ res.value = built[name].num_docs
                    /\ res.value = NumDocsOnDisk(built[name].args.corpus_dirpath)
          /\ last.op = "count_documents" =>
                /\ last.raised = NoError
                /\ last.value = built[last.self].num_docs)
    /\ [][\A name \in DOMAIN stores :
            count_documents(stores'[name]).value = count_documents(stores[name]).value]_vars

\* C4 witness: count_documents answered the loaded index's size on the first
\* store after a second store and a retriever were built
C4_Witness ==
    /\ last.op = "count_documents"
    /\ last.self = "s"
    /\ last.value = MaxDocs
    /\ "r" \in DOMAIN stores
    /\ "ret" \in DOMAIN retrievers

InitParameterNames == {"corpus_dirpath", "load_corpus", "mmap", "stemmer_lang"}

\* the four init parameters as a store holds them
InitFields(self) ==
    [corpus_dirpath |-> self.corpus_dirpath, load_corpus |-> self.load_corpus,
     mmap |-> self.mmap, stemmer_lang |-> self.stemmer_lang]

\* C5: serialization round trip: to_dict of a store carries exactly the four
\* init parameters with the values given at construction; from_dict of it
\* builds a store with the same four values; to_dict of that store is the same
\* dictionary.
C5_RoundTrip ==
    /\ \A name \in DOMAIN stores :
          LET d == to_dict(stores[name]).value
              back == from_dict(d)
          IN  /\ DOMAIN d.init_parameters = InitParameterNames
              /\ d.init_parameters = built[name].args
              /\ back.raised = NoError
              /\ InitFields(back.self) = built[name].args
              /\ to_dict(back.self).value = d
    /\ last.op = "to_dict" =>
          /\ last.raised = NoError
          /\ last.value.init_parameters = built[last.self].args
    /\ (last.op = "from_dict" /\ last.raised = NoError) =>
          /\ InitFields(stores["r"]) = last.args.init_parameters
          /\ to_dict(stores["r"]).value = last.args
    /\ "r" \in DOMAIN stores =>
          /\ InitFields(stores["r"]) = InitFields(stores["s"])
          /\ to_dict(stores["r"]).value = to_dict(stores["s"]).value

\* C5 witness: a store built with load_corpus and stemmer_lang off their defaults
\* (and load_corpus differing from mmap) was serialized, rebuilt
\* from the dictionary, and the rebuilt store serialized in turn
C5_Witness ==
    /\ "r" \in DOMAIN stores
    /\ last.op = "to_dict"
    /\ last.self = "r"
    /\ built["s"].args.load_corpus = FALSE
    /\ built["s"].args.mmap = TRUE
    /\ built["s"].args.stemmer_lang = "french"
    /\ built["s"].args.corpus_dirpath = "idx_small"

\* C6 (as claimed): for every retriever built with top_k = k, run returns a
\* list of at most k documents
C6_AtMostTopK ==
    (last.op = "run" /\ last.raised = NoError) =>
        Len(last.value) <= retrievers[last.self].top_k

\* C7 (as claimed): a retriever's constructor given a top_k that is not > 0
\* raises ValueError, so no retriever with top_k <= 0 exists
C7_TopKPositive ==
    /\ \A name \in DOMAIN retrievers : retrievers[name].top_k > 0
    /\ (last.op = "Retriever.__init__" /\ last.args.top_k <= 0) =>
          last.raised = "ValueError"

\* C8 (as claimed): delete_documents fails with MissingDocumentError when an id
\* it is given is not present in the store
C8_DeleteMissing ==
    (/\ last.op = "delete_documents"
     /\ \E i \in 1 .. Len(last.args) : last.args[i] \notin PresentIds(stores[last.self]))
        => last.raised = "MissingDocumentError"

\* C9 (as claimed): when run returns, its list has one document per entry of
\* the first row the index returned for k = top_k, in the row's order: with
\* load_corpus the i-th document's content is the i-th entry's 'text'; without
\* it the i-th document's id is the i-th entry itself and the document has no
\* content.
C9_RunMapsRow ==
    last.op = "run" =>
        LET self == retrievers[last.self]
            store == stores[self.document_store]
        IN  /\ last.lib \in bm25s_retrieve(store.bm25s,
                                           bm25s_tokenize(last.args, store.stemmer),
                                           self.top_k, JAX_IS_AVAILABLE)
            /\ last.raised = last.lib.raised
            /\ last.raised = NoError =>
                  LET row == last.lib.value[1]
                  IN  /\ Len(last.value) = Len(row)
                      /\ \A i \in 1 .. Len(row) :
                            IF store.load_corpus
                            THEN last.value[i].content = row[i].text
                            ELSE /\ last.value[i].id = GivenId(row[i])
                                 /\ last.value[i].content = None

\* C10: run is read-only: a step of run leaves every field of every store
\* (corpus_dirpath, load_corpus, mmap, stemmer_lang, index, stemmer) and of the
\* retriever (top_k, document_store) as it was, so to_dict of every store
\* returns the same dictionary after it as before.
C10_RunReadOnly ==
    [][last'.op = "run" =>
          /\ ObjectsUnchanged
          /\ \A name \in DOMAIN stores :
                to_dict(stores'[name]).value = to_dict(stores[name]).value]_vars

\* C10 witness: run returned documents from a store loaded without its corpus
C10_Witness ==
    /\ last.op = "run"
    /\ last.raised = NoError
    /\ Len(last.value) >= 1
    /\ ~stores[retrievers[last.self].document_store].load_corpus

====
